---- MODULE Spec2Model ----
(***************************************************************************)
(* MineAlert: the drone kinematics/battery/signal simulator                *)
(* (src/drone_simulator.py), the hotspot detection simulator and its       *)
(* sensors (src/detection_simulator.py), the datastore (src/db.py), the    *)
(* image detector (src/image_processor.py) and the event logging and       *)
(* settings of the two dashboards (src/app.py,                             *)
(* src/landmine_detection_app.py).                                         *)
(*                                                                         *)
(* The Python floats are kept as fixed-point integers:                     *)
(*   latitude, longitude   micro-degrees   (0.0001 deg  = 100)             *)
(*   altitude              metres          (the code only adds +-1.0)      *)
(*   speed                 0.1 m/s         (2.0 m/s     = 20)              *)
(*   battery_level         0.01 percent    (100 percent = 10000)           *)
(*   signal_strength       percent                                         *)
(*   probability, confidence   percent     (0.7 = 70)                      *)
(***************************************************************************)
EXTENDS Integers, FiniteSets, Sequences, TLC

\* lastOp: the operation handled last; acted: whether its `if` body ran
\* query, near, detection: the last check_for_detection call and what it
\* gave; random_draw, hotspot_draws: the random.random() values it drew
VARIABLES latitude, longitude, altitude, speed, heading, battery_level,
          signal_strength, is_flying, lastOp, acted,
          query, near, detection, random_draw, hotspot_draws

\* sensor: the last sensor reading taken, with the inputs it was taken from
VARIABLES sensor

\* the detections and events tables of landmine_detection.db, in row order,
\* and the last call of a db.py function with what it returned
VARIABLES db_detections, db_events, db_call

\* the LandmineDetector: its two dicts and its threshold, the last
\* detect_landmines call with what it returned, and the number of uuids
\* drawn by generate_unique_id
VARIABLES processed_images, detection_results, confidence_threshold,
          detect_call, uuid_count

\* the Settings tab: the slider values of the last Apply Settings
VARIABLES applied_settings

\* a dashboard session: which script runs, st.session_state.events,
\* .detections, .processed_images and (app.py) .is_flying, the confirmation
\* checkbox as the last script run left it, the Event Stream as last
\* rendered, and the clock read by datetime.now()
VARIABLES dashboard, events, session_detections, session_processed_images,
          session_is_flying, confirm_checkbox, event_stream, clock

droneVars == <<latitude, longitude, altitude, speed, heading, battery_level,
               signal_strength, is_flying>>
detVars == <<query, near, detection, random_draw, hotspot_draws>>
sensorVars == <<sensor>>
dbVars == <<db_detections, db_events, db_call>>
imageVars == <<processed_images, detection_results, confidence_threshold,
               detect_call, uuid_count>>
sessionVars == <<dashboard, events, session_detections, session_processed_images,
                 session_is_flying, confirm_checkbox, event_stream, clock>>
dashVars == <<applied_settings, sessionVars>>
appVars == <<sensorVars, dbVars, imageVars, dashVars>>
exceptSensor == <<droneVars, detVars, dbVars, imageVars, dashVars>>
exceptDb == <<droneVars, detVars, sensorVars, imageVars, dashVars>>
vars == <<latitude, longitude, altitude, speed, heading, battery_level,
          signal_strength, is_flying, lastOp, acted, query, near,
          detection, random_draw, hotspot_draws, appVars>>

Max(a, b) == IF a >= b THEN a ELSE b
Min(a, b) == IF a <= b THEN a ELSE b
Abs(a) == IF a >= 0 THEN a ELSE -a

(***************************************************************************)
(* DroneSimulator.__init__ as app.py constructs it.                        *)
(***************************************************************************)
initial_lat == 34052200
initial_lng == -118243700
initial_altitude == 10
full_battery == 10000
initial_signal == 95
max_speed == 100
max_altitude == 50
min_altitude == 5
movement_step == 100
takeoff_altitude == 10
takeoff_speed == 10
move_speed == 20
return_speed == 50
min_signal == 60
max_signal == 100

(***************************************************************************)
(* Inputs: the clock and the random draws of update_status.                *)
(***************************************************************************)
\* seconds between two update_status calls (time.time() differences)
ElapsedSet == {0, 10, 1990, 2000}
\* random.random() < 0.3 and the two random.uniform(-0.00001, 0.00001)
DriftSet == {<<FALSE, 0, 0>>} \cup
            {<<TRUE, a, b>> : a \in {-10, 10}, b \in {-10, 10}}
\* random.uniform(-0.2, 0.2)
SpeedVarSet == {-2, 0, 2}
\* random.uniform(-2, 2)
SignalVarSet == {-2, 0, 2}

NoDetection == [classification |-> "None", confidence |-> 0,
                latitude |-> 0, longitude |-> 0]
\* no sensor reading taken yet
NoReading == [kind |-> "none", lat |-> 0, lon |-> 0, hour |-> 0, noise |-> 0,
              raw |-> 0, reading |-> 0]

\* LandmineDetector.confidence_threshold (0.7) and the Confidence Threshold
\* slider (70.0) as they start
default_confidence_threshold == 7
default_threshold_slider == 7000

\* a dict with no key, for detections and for events
NoDetectionData ==
    [keys |-> {}, nulls |-> {}, id |-> "", timestamp |-> 0, latitude |-> 0,
     longitude |-> 0, classification |-> "", confidence |-> 0,
     image_path |-> "", x |-> 0, y |-> 0, width |-> 0, height |-> 0]
NoEventData ==
    [keys |-> {}, nulls |-> {}, id |-> "", time |-> 0, type |-> "",
     message |-> "", severity |-> ""]
\* no db.py function called yet
NoCall == [op |-> "none", detection |-> NoDetectionData, event |-> NoEventData,
           now |-> 0, classification |-> "", ok |-> FALSE, raised |-> FALSE,
           rows |-> <<>>, stats |-> <<>>]

Init ==
    /\ latitude = initial_lat
    /\ longitude = initial_lng
    /\ altitude = initial_altitude
    /\ speed = 0
    /\ heading = 0
    /\ battery_level = full_battery
    /\ signal_strength = initial_signal
    /\ is_flying = FALSE
    /\ lastOp = "init"
    /\ acted = TRUE
    /\ query = <<initial_lat, initial_lng>>
    /\ near = <<"None", 0>>
    /\ detection = NoDetection
    /\ random_draw = 100
    /\ hotspot_draws = [k \in {} |-> 100]
    /\ sensor = NoReading
    /\ db_detections = <<>>
    /\ db_events = <<>>
    /\ db_call = NoCall
    /\ processed_images = <<>>
    /\ detection_results = <<>>
    /\ confidence_threshold = default_confidence_threshold
    /\ detect_call = [path |-> "", file |-> "", contours |-> <<>>, ret |-> <<>>,
                      raised |-> FALSE]
    /\ uuid_count = 0
    /\ applied_settings = [applied |-> FALSE,
                           sensitivity |-> default_confidence_threshold,
                           threshold |-> default_threshold_slider]
    /\ dashboard = "none"
    /\ events = <<>>
    /\ session_detections = <<>>
    /\ session_processed_images = <<>>
    /\ session_is_flying = FALSE
    /\ confirm_checkbox = "absent"
    /\ event_stream = <<>>
    /\ clock = 1

\* a battery that is not floored at 0
consume_battery_unclamped(level, amount) == level - amount

\* DroneSimulator._consume_battery
consume_battery(level, amount) == Max(0, level - amount)

\* DroneSimulator.takeoff: what it does to the drone
DroneTakeoff ==
    /\ is_flying' = TRUE
    /\ altitude' = takeoff_altitude
    /\ speed' = takeoff_speed
    /\ UNCHANGED <<latitude, longitude, heading, battery_level, signal_strength>>

Takeoff ==
    /\ DroneTakeoff
    /\ lastOp' = "takeoff"
    /\ acted' = TRUE
    /\ UNCHANGED <<detVars, appVars>>

\* DroneSimulator.land: what it does to the drone
DroneLand ==
    /\ is_flying' = FALSE
    /\ altitude' = 0
    /\ speed' = 0
    /\ UNCHANGED <<latitude, longitude, heading, battery_level, signal_strength>>

Land ==
    /\ DroneLand
    /\ lastOp' = "land"
    /\ acted' = TRUE
    /\ UNCHANGED <<detVars, appVars>>

\* a move that does not look at is_flying
MoveAlways(op, dlat, dlng, hdg) ==
    /\ lastOp' = op
    /\ acted' = TRUE
    /\ latitude' = latitude + dlat
    /\ longitude' = longitude + dlng
    /\ speed' = move_speed
    /\ heading' = hdg
    /\ battery_level' = consume_battery(battery_level, 20)
    /\ UNCHANGED <<altitude, signal_strength, is_flying>>
    /\ UNCHANGED <<detVars, appVars>>

\* the body shared by move_forward / move_backward / move_left / move_right
Move(op, dlat, dlng, hdg) ==
    /\ lastOp' = op
    /\ acted' = is_flying
    /\ IF is_flying
       THEN /\ latitude' = latitude + dlat
            /\ longitude' = longitude + dlng
            /\ speed' = move_speed
            /\ heading' = hdg
            /\ battery_level' = consume_battery(battery_level, 20)
       ELSE UNCHANGED <<latitude, longitude, speed, heading, battery_level>>
    /\ UNCHANGED <<altitude, signal_strength, is_flying>>
    /\ UNCHANGED <<detVars, appVars>>

MoveForward == Move("move_forward", movement_step, 0, 0)
MoveBackward == Move("move_backward", -movement_step, 0, 180)
\* move_left with the sign of move_right
MoveLeftEast == Move("move_left", 0, movement_step, 270)
MoveLeft == Move("move_left", 0, -movement_step, 270)
MoveRight == Move("move_right", 0, movement_step, 90)

\* move_up without the max_altitude test
MoveUpUnclamped ==
    /\ lastOp' = "move_up"
    /\ acted' = is_flying
    /\ IF is_flying
       THEN /\ altitude' = altitude + 1
            /\ battery_level' = consume_battery(battery_level, 30)
       ELSE UNCHANGED <<altitude, battery_level>>
    /\ UNCHANGED <<latitude, longitude, speed, heading, signal_strength, is_flying>>
    /\ UNCHANGED <<detVars, appVars>>

MoveUp ==
    /\ lastOp' = "move_up"
    /\ acted' = (is_flying /\ altitude < max_altitude)
    /\ IF is_flying /\ altitude < max_altitude
       THEN /\ altitude' = altitude + 1
            /\ battery_level' = consume_battery(battery_level, 30)
       ELSE UNCHANGED <<altitude, battery_level>>
    /\ UNCHANGED <<latitude, longitude, speed, heading, signal_strength, is_flying>>
    /\ UNCHANGED <<detVars, appVars>>

MoveDown ==
    /\ lastOp' = "move_down"
    /\ acted' = (is_flying /\ altitude > min_altitude)
    /\ IF is_flying /\ altitude > min_altitude
       THEN /\ altitude' = altitude - 1
            /\ battery_level' = consume_battery(battery_level, 10)
       ELSE UNCHANGED <<altitude, battery_level>>
    /\ UNCHANGED <<latitude, longitude, speed, heading, signal_strength, is_flying>>
    /\ UNCHANGED <<detVars, appVars>>

\* x * 0.8 + home * 0.2
Blend(x, home) == (4 * x + home) \div 5

\* DroneSimulator.return_to_home: what it does to the drone
DroneReturnToHome ==
    /\ IF is_flying
       THEN /\ latitude' = Blend(latitude, initial_lat)
            /\ longitude' = Blend(longitude, initial_lng)
            /\ speed' = return_speed
            /\ battery_level' = consume_battery(battery_level, 50)
       ELSE UNCHANGED <<latitude, longitude, speed, battery_level>>
    /\ UNCHANGED <<altitude, heading, signal_strength, is_flying>>

ReturnToHome ==
    /\ DroneReturnToHome
    /\ lastOp' = "return_to_home"
    /\ acted' = is_flying
    /\ UNCHANGED <<detVars, appVars>>

\* DroneSimulator.emergency_stop: what it does to the drone
DroneEmergencyStop ==
    /\ speed' = 0
    /\ altitude' = 0
    /\ is_flying' = FALSE
    /\ UNCHANGED <<latitude, longitude, heading, battery_level, signal_strength>>

EmergencyStop ==
    /\ DroneEmergencyStop
    /\ lastOp' = "emergency_stop"
    /\ acted' = TRUE
    /\ UNCHANGED <<detVars, appVars>>

\* DroneSimulator.update_status: what it does to the drone.  elapsed:
\* seconds since last_update_time; drift: random.random() < 0.3; dlat, dlng,
\* dspeed, dsignal: the random.uniform draws
DroneUpdateStatus(elapsed, drift, dlat, dlng, dspeed, dsignal) ==
    /\ IF is_flying
       THEN /\ battery_level' = consume_battery(battery_level, 5 * elapsed)
            /\ IF drift
               THEN /\ latitude' = latitude + dlat
                    /\ longitude' = longitude + dlng
               ELSE UNCHANGED <<latitude, longitude>>
            /\ speed' = Max(0, Min(max_speed, speed + dspeed))
       ELSE /\ battery_level' = consume_battery(battery_level, elapsed)
            /\ speed' = 0
            /\ UNCHANGED <<latitude, longitude>>
    /\ signal_strength' = Max(min_signal, Min(max_signal, signal_strength + dsignal))
    /\ UNCHANGED <<altitude, heading, is_flying>>

\* update_status that lands the drone once the battery is empty
UpdateStatusAutoLand(elapsed, drift, dlat, dlng, dspeed, dsignal) ==
    /\ lastOp' = "update_status"
    /\ acted' = TRUE
    /\ IF is_flying
       THEN /\ battery_level' = consume_battery(battery_level, 5 * elapsed)
            /\ IF drift
               THEN /\ latitude' = latitude + dlat
                    /\ longitude' = longitude + dlng
               ELSE UNCHANGED <<latitude, longitude>>
            /\ speed' = Max(0, Min(max_speed, speed + dspeed))
       ELSE /\ battery_level' = consume_battery(battery_level, elapsed)
            /\ speed' = 0
            /\ UNCHANGED <<latitude, longitude>>
    /\ signal_strength' = Max(min_signal, Min(max_signal, signal_strength + dsignal))
    /\ is_flying' = (is_flying /\ battery_level' > 0)
    /\ UNCHANGED <<altitude, heading>>
    /\ UNCHANGED <<detVars, appVars>>

\* update_status without the max(60, min(100, ...)) on the signal
UpdateStatusUnclamped(elapsed, drift, dlat, dlng, dspeed, dsignal) ==
    /\ lastOp' = "update_status"
    /\ acted' = TRUE
    /\ IF is_flying
       THEN /\ battery_level' = consume_battery(battery_level, 5 * elapsed)
            /\ IF drift
               THEN /\ latitude' = latitude + dlat
                    /\ longitude' = longitude + dlng
               ELSE UNCHANGED <<latitude, longitude>>
            /\ speed' = Max(0, Min(max_speed, speed + dspeed))
       ELSE /\ battery_level' = consume_battery(battery_level, elapsed)
            /\ speed' = 0
            /\ UNCHANGED <<latitude, longitude>>
    /\ signal_strength' = signal_strength + dsignal
    /\ UNCHANGED <<altitude, heading, is_flying>>
    /\ UNCHANGED <<detVars, appVars>>

UpdateStatus(elapsed, drift, dlat, dlng, dspeed, dsignal) ==
    /\ DroneUpdateStatus(elapsed, drift, dlat, dlng, dspeed, dsignal)
    /\ lastOp' = "update_status"
    /\ acted' = TRUE
    /\ UNCHANGED <<detVars, appVars>>

(***************************************************************************)
(* DetectionSimulator.  Hotspots in micro-degrees, probabilities in        *)
(* percent; each list is scanned in order.                                 *)
(***************************************************************************)
landmine_hotspots == <<
    [lat |-> 34052200, lon |-> -118243700, radius |-> 1000, probability |-> 70],
    [lat |-> 34053000, lon |-> -118245000, radius |-> 800, probability |-> 60],
    [lat |-> 34051500, lon |-> -118242000, radius |-> 500, probability |-> 80] >>

debris_hotspots == <<
    [lat |-> 34052500, lon |-> -118244000, radius |-> 2000, probability |-> 50],
    [lat |-> 34051800, lon |-> -118243500, radius |-> 1000, probability |-> 40],
    [lat |-> 34052800, lon |-> -118243000, radius |-> 1000, probability |-> 60] >>

safe_hotspots == <<
    [lat |-> 34053500, lon |-> -118245500, radius |-> 2000, probability |-> 90],
    [lat |-> 34051000, lon |-> -118241500, radius |-> 1000, probability |-> 80] >>

Classes == <<"Landmine", "Metal Debris", "Safe Zone">>
HotspotLists == <<landmine_hotspots, debris_hotspots, safe_hotspots>>

\* the square of DetectionSimulator.distance
DistanceSq(lat1, lon1, lat2, lon2) ==
    (lat1 - lat2) * (lat1 - lat2) + (lon1 - lon2) * (lon1 - lon2)

\* dist <= radius: the rim counted as inside
WithinRadiusInclusive(lat, lon, hotspot) ==
    DistanceSq(lat, lon, hotspot.lat, hotspot.lon) <= hotspot.radius * hotspot.radius

\* dist < hotspot["radius"], both sides squared
WithinRadius(lat, lon, hotspot) ==
    DistanceSq(lat, lon, hotspot.lat, hotspot.lon) < hotspot.radius * hotspot.radius

\* <<c, i>>: the i-th hotspot of the c-th list
HotspotKeys == {<<c, i>> : c \in 1..3, i \in 1..3} \ {<<3, 3>>}
Containing(lat, lon) ==
    {k \in HotspotKeys : WithinRadius(lat, lon, HotspotLists[k[1]][k[2]])}

\* the hotspots of list c, in list order, that return from the loop: inside
\* the radius and random.random() < probability (draws[k], in percent)
Hits(c, lat, lon, draws) ==
    {i \in 1..Len(HotspotLists[c]) :
        /\ WithinRadius(lat, lon, HotspotLists[c][i])
        /\ draws[<<c, i>>] < HotspotLists[c][i].probability}

FirstOf(S) == CHOOSE i \in S : \A j \in S : i <= j

random_detection_chance == 5

\* an is_near_hotspot that scans the debris list before the landmine list
is_near_hotspot_debris_first(lat, lon, draws, rnd, pick, conf) ==
    LET lm == Hits(1, lat, lon, draws)
        db == Hits(2, lat, lon, draws)
        sf == Hits(3, lat, lon, draws)
    IN  IF db # {} THEN <<"Metal Debris", debris_hotspots[FirstOf(db)].probability>>
        ELSE IF lm # {} THEN <<"Landmine", landmine_hotspots[FirstOf(lm)].probability>>
        ELSE IF sf # {} THEN <<"Safe Zone", safe_hotspots[FirstOf(sf)].probability>>
        ELSE IF rnd < random_detection_chance THEN <<pick, conf>>
        ELSE <<"None", 0>>

\* draws: the per-hotspot random.random() of the hotspots containing the
\* position; rnd: the random.random() of the random detection; pick, conf:
\* its random.choices and random.uniform(70, 95)
is_near_hotspot(lat, lon, draws, rnd, pick, conf) ==
    LET lm == Hits(1, lat, lon, draws)
        db == Hits(2, lat, lon, draws)
        sf == Hits(3, lat, lon, draws)
    IN  IF lm # {} THEN <<"Landmine", landmine_hotspots[FirstOf(lm)].probability>>
        ELSE IF db # {} THEN <<"Metal Debris", debris_hotspots[FirstOf(db)].probability>>
        ELSE IF sf # {} THEN <<"Safe Zone", safe_hotspots[FirstOf(sf)].probability>>
        ELSE IF rnd < random_detection_chance THEN <<pick, conf>>
        ELSE <<"None", 0>>

\* `if detection_type:` on None or a classification string
Truthy(t) == t # "None" /\ t # ""

\* a detection dict with the coordinates swapped
DetectionRecordSwapped(lat, lon, result) ==
    IF Truthy(result[1])
    THEN [classification |-> result[1], confidence |-> result[2],
          latitude |-> lon, longitude |-> lat]
    ELSE NoDetection

\* the detection dict of check_for_detection (its uuid and timestamp left out)
DetectionRecord(lat, lon, result) ==
    IF Truthy(result[1])
    THEN [classification |-> result[1], confidence |-> result[2],
          latitude |-> lat, longitude |-> lon]
    ELSE NoDetection

CheckForDetection(lat, lon, draws, rnd, pick, conf) ==
    LET result == is_near_hotspot(lat, lon, draws, rnd, pick, conf)
    IN  /\ query' = <<lat, lon>>
        /\ near' = result
        /\ detection' = DetectionRecord(lat, lon, result)
        /\ random_draw' = rnd
        /\ hotspot_draws' = draws
        /\ lastOp' = "check"
        /\ acted' = TRUE
        /\ UNCHANGED <<droneVars, appVars>>

\* positions asked about: the centre of a landmine hotspot (inside debris
\* hotspots too), debris only, safe only, landmine and safe, the rim of a
\* hotspot, just inside it, and far from every hotspot
QueryPoints == {
    <<34052200, -118243700>>, <<34052500, -118242500>>,
    <<34054500, -118246500>>, <<34051500, -118242000>>,
    <<34052000, -118242000>>, <<34051999, -118242000>>,
    <<34053000, -118245000>>, <<34051000, -118241500>>,
    <<34060000, -118250000>>, <<34048000, -118243700>> }
\* random.random() in percent: below 40, between 60 and 70, above 90
DrawSet == {35, 65, 95}
\* the random detection: random.random() (2 or 50 percent), the class
\* drawn by random.choices and the confidence by random.uniform(70, 95)
RandomSet == {<<50, "None", 0>>} \cup
             {<<2, Classes[c], v>> : c \in 1..3, v \in {70, 83, 95}}

(***************************************************************************)
(* Bounds of the exploration.  Every specification takes every operation   *)
(* from every state it reaches and keeps the successors inside its         *)
(* envelope; the envelopes differ in which quantity is followed over its   *)
(* whole range while the others stay near their resting values.            *)
(***************************************************************************)
\* distance from home (latitude plus longitude) the exploration follows
MaxOffset == 120
OffsetNear == 100
\* distance from the nearest whole number of movement steps from home
\* that drift and return_to_home may build up
MaxGridOff == 20
\* metres above or below the takeoff altitude
ClimbNear == 1
ClimbFull == 45
\* battery below full that is followed before the battery must be low
DrainNear == 60
DrainClimb == 1300
\* battery above empty that is followed
DrainLow == 50
\* signal and speed away from the values the code assigns
SignalNear == 2
SignalFull == 40
SpeedNear == 2
RestSpeeds == {0, takeoff_speed, move_speed, return_speed}
SpeedOff == Min(Min(Abs(speed), Abs(speed - takeoff_speed)),
                Min(Abs(speed - move_speed), Abs(speed - return_speed)))

Excursions ==
      (IF altitude \in {0, initial_altitude, takeoff_altitude} THEN 0 ELSE 1)
    + (IF latitude = initial_lat /\ longitude = initial_lng THEN 0 ELSE 1)
    + (IF speed \in RestSpeeds THEN 0 ELSE 1)
    + (IF signal_strength = initial_signal THEN 0 ELSE 1)

GridOff(x, home) ==
    LET r == Abs(x - home) % movement_step IN Min(r, movement_step - r)

Envelope(maxOff, maxGrid, maxClimb, maxDrain, maxSig, maxSpd) ==
    /\ Abs(latitude - initial_lat) + Abs(longitude - initial_lng) <= maxOff
    /\ GridOff(latitude, initial_lat) + GridOff(longitude, initial_lng) <= maxGrid
    /\ altitude = 0 \/ Abs(altitude - takeoff_altitude) <= maxClimb
    /\ \/ battery_level <= DrainLow
       \/ battery_level >= full_battery - maxDrain
    /\ Abs(signal_strength - initial_signal) <= maxSig
    /\ SpeedOff <= maxSpd
    \* one of altitude / position / speed / signal at a time is followed
    \* away from its resting value
    /\ Excursions <= 1

EnvMove == Envelope(MaxOffset, MaxGridOff, ClimbNear, DrainNear, SignalNear, SpeedNear)
EnvClimb == Envelope(0, 0, ClimbFull, DrainClimb, 0, 0)
EnvSignal == Envelope(OffsetNear, 0, ClimbNear, DrainNear, SignalFull, SpeedNear)

\* return_to_home is followed in flight from the positions whose blend
\* with home is a whole number of micro-degrees, so that the fixed point
\* result is the exact one
Representable ==
    is_flying => /\ (4 * latitude + initial_lat) % 5 = 0
                 /\ (4 * longitude + initial_lng) % 5 = 0

\* the dashboard session: one DroneSimulator call per step
Next ==
    \/ Takeoff /\ EnvMove'
    \/ Land /\ EnvMove'
    \/ MoveForward /\ EnvMove'
    \/ MoveBackward /\ EnvMove'
    \/ MoveLeft /\ EnvMove'
    \/ MoveRight /\ EnvMove'
    \/ MoveUp /\ EnvMove'
    \/ MoveDown /\ EnvMove'
    \/ Representable /\ ReturnToHome /\ EnvMove'
    \/ EmergencyStop /\ EnvMove'
    \/ \E elapsed \in ElapsedSet, d \in DriftSet,
          dspeed \in SpeedVarSet, dsignal \in SignalVarSet :
           UpdateStatus(elapsed, d[1], d[2], d[3], dspeed, dsignal) /\ EnvMove'
Spec == Init /\ [][Next]_vars

\* the same session, followed over the whole altitude range
NextClimb ==
    \/ Takeoff /\ EnvClimb'
    \/ Land /\ EnvClimb'
    \/ MoveForward /\ EnvClimb'
    \/ MoveBackward /\ EnvClimb'
    \/ MoveLeft /\ EnvClimb'
    \/ MoveRight /\ EnvClimb'
    \/ MoveUp /\ EnvClimb'
    \/ MoveDown /\ EnvClimb'
    \/ Representable /\ ReturnToHome /\ EnvClimb'
    \/ EmergencyStop /\ EnvClimb'
    \/ \E elapsed \in ElapsedSet, d \in DriftSet,
          dspeed \in SpeedVarSet, dsignal \in SignalVarSet :
           UpdateStatus(elapsed, d[1], d[2], d[3], dspeed, dsignal) /\ EnvClimb'
SpecClimb == Init /\ [][NextClimb]_vars

\* the same session, followed over the whole signal range
NextSignal ==
    \/ Takeoff /\ EnvSignal'
    \/ Land /\ EnvSignal'
    \/ MoveForward /\ EnvSignal'
    \/ MoveBackward /\ EnvSignal'
    \/ MoveLeft /\ EnvSignal'
    \/ MoveRight /\ EnvSignal'
    \/ MoveUp /\ EnvSignal'
    \/ MoveDown /\ EnvSignal'
    \/ Representable /\ ReturnToHome /\ EnvSignal'
    \/ EmergencyStop /\ EnvSignal'
    \/ \E elapsed \in ElapsedSet, d \in DriftSet,
          dspeed \in SpeedVarSet, dsignal \in SignalVarSet :
           UpdateStatus(elapsed, d[1], d[2], d[3], dspeed, dsignal) /\ EnvSignal'
SpecSignal == Init /\ [][NextSignal]_vars

\* check_for_detection asked at the query points, under every draw
NextDet ==
    \E q \in QueryPoints :
        \E draws \in [Containing(q[1], q[2]) -> DrawSet], r \in RandomSet :
            CheckForDetection(q[1], q[2], draws, r[1], r[2], r[3])
SpecDet == Init /\ [][NextDet]_vars

(***************************************************************************)
(* The simulated sensors of DetectionSimulator.  Readings in 0.01 percent  *)
(* (100 percent = 10000); distances in micro-degrees.                      *)
(***************************************************************************)
base_metal_reading == 1000
base_thermal_reading == 500
landmine_metal_strength == 100
debris_metal_strength == 75
landmine_thermal_strength == 85
max_reading == 10000

\* the largest r in lo..hi with r * r <= n, by bisection
RECURSIVE SqrtBetween(_, _, _)
SqrtBetween(n, lo, hi) ==
    IF lo = hi THEN lo
    ELSE LET mid == (lo + hi + 1) \div 2
         IN  IF mid * mid <= n THEN SqrtBetween(n, mid, hi)
             ELSE SqrtBetween(n, lo, mid - 1)

\* math.sqrt, rounded down to a whole micro-degree
ISqrt(n) == SqrtBetween(n, 0, 4096)

\* (1 - dist / (radius * num / den)) * scale for a hotspot in reach,
\* nothing for one out of reach
Strength(lat, lon, hotspot, num, den, scale) ==
    LET reach == (hotspot.radius * num) \div den
        dsq == DistanceSq(lat, lon, hotspot.lat, hotspot.lon)
    IN  IF dsq < reach * reach
        THEN {((reach - ISqrt(dsq)) * scale * 100) \div reach}
        ELSE {}

\* reading = max(reading, strength) over the hotspots of a list
Strengths(lat, lon, hotspots, num, den, scale) ==
    UNION {Strength(lat, lon, hotspots[i], num, den, scale) : i \in DOMAIN hotspots}

MaxOf(S) == CHOOSE x \in S : \A y \in S : y <= x

\* the metal reading before the noise: 10, raised by the hotspots in reach
metal_signal(lat, lon) ==
    MaxOf({base_metal_reading}
          \cup Strengths(lat, lon, landmine_hotspots, 3, 2, landmine_metal_strength)
          \cup Strengths(lat, lon, debris_hotspots, 3, 2, debris_metal_strength))

\* a metal reading returned as computed
metal_reading_unclamped(lat, lon, noise) == metal_signal(lat, lon) + noise

\* DetectionSimulator.get_metal_detector_reading; noise is random.uniform(-5, 5)
get_metal_detector_reading(lat, lon, noise) ==
    Max(0, Min(max_reading, metal_signal(lat, lon) + noise))

\* ten times the time_factor of the hour of day
time_factor(hour) ==
    IF 10 <= hour /\ hour <= 16 THEN 12
    ELSE IF (6 <= hour /\ hour <= 9) \/ (17 <= hour /\ hour <= 19) THEN 11
    ELSE 10

\* the thermal reading before the noise: 5, raised by the landmine hotspots
\* in reach, times the time factor
thermal_signal(lat, lon, hour) ==
    (MaxOf({base_thermal_reading}
           \cup Strengths(lat, lon, landmine_hotspots, 6, 5, landmine_thermal_strength))
     * time_factor(hour)) \div 10

\* DetectionSimulator.get_thermal_reading; noise is random.uniform(-3, 3)
get_thermal_reading(lat, lon, hour, noise) ==
    Max(0, Min(max_reading, thermal_signal(lat, lon, hour) + noise))

\* the Sensor Data panel asks for the metal reading at a position
MetalReading(lat, lon, noise) ==
    /\ sensor' = [kind |-> "metal", lat |-> lat, lon |-> lon, hour |-> 0,
                  noise |-> noise,
                  raw |-> metal_signal(lat, lon) + noise,
                  reading |-> get_metal_detector_reading(lat, lon, noise)]
    /\ lastOp' = "get_metal_detector_reading"
    /\ acted' = TRUE
    /\ UNCHANGED exceptSensor

\* the Sensor Data panel asks for the thermal reading at a position
ThermalReading(lat, lon, hour, noise) ==
    /\ sensor' = [kind |-> "thermal", lat |-> lat, lon |-> lon, hour |-> hour,
                  noise |-> noise,
                  raw |-> thermal_signal(lat, lon, hour) + noise,
                  reading |-> get_thermal_reading(lat, lon, hour, noise)]
    /\ lastOp' = "get_thermal_reading"
    /\ acted' = TRUE
    /\ UNCHANGED exceptSensor

\* random.uniform(-5, 5) and random.uniform(-3, 3): the ends and the middle
MetalNoiseSet == {-500, -250, 0, 250, 500}
ThermalNoiseSet == {-300, 0, 300}
\* datetime.now().hour
HourSet == 0..23

NextSensor ==
    \/ \E q \in QueryPoints, noise \in MetalNoiseSet :
           MetalReading(q[1], q[2], noise)
    \/ \E q \in QueryPoints, hour \in HourSet, noise \in ThermalNoiseSet :
           ThermalReading(q[1], q[2], hour, noise)
SpecSensor == Init /\ [][NextSensor]_vars

(***************************************************************************)
(* The datastore (src/db.py).  A Python dict is a record that carries the  *)
(* set of its keys and the set of its keys whose value is None; an absent  *)
(* or None entry holds 0 or "".  A table row is such a record over all the *)
(* columns.  Timestamps are whole ticks of the clock.                      *)
(***************************************************************************)
DetectionColumns == {"id", "timestamp", "latitude", "longitude",
                     "classification", "confidence", "image_path",
                     "x", "y", "width", "height"}
\* read as detection_data['...']: a missing key raises KeyError
DetectionRequiredKeys == {"id", "timestamp", "latitude", "longitude",
                          "classification", "confidence"}
\* primary_key=True or nullable=False
DetectionNotNull == {"id", "latitude", "longitude", "classification",
                     "confidence"}
EventColumns == {"id", "time", "type", "message", "severity"}
EventNotNull == {"id", "type", "message", "severity"}
StatClasses == {"Landmine", "Metal Debris", "Safe Zone"}

\* d.get(k) is None
IsNone(d, k) == k \notin d.keys \/ k \in d.nulls

\* Detection(...) as inserted: every column, None where the dict has none,
\* except that a None timestamp takes the column default datetime.now
DetectionRow(data, now) ==
    [data EXCEPT !.keys = DetectionColumns,
                 !.nulls = {k \in DetectionColumns \ {"timestamp"} : IsNone(data, k)},
                 !.timestamp = IF IsNone(data, "timestamp") THEN now ELSE @]

\* Event(...) as inserted; a None time takes the column default datetime.now
EventRow(data, now) ==
    [data EXCEPT !.keys = EventColumns,
                 !.nulls = {k \in EventColumns \ {"time"} : IsNone(data, k)},
                 !.time = IF IsNone(data, "time") THEN now ELSE @]

\* what the body of the try block raises: KeyError for a missing key,
\* IntegrityError for a None in a NOT NULL column or a primary key in use
SaveError(table, data, required, notnull) ==
    IF ~(required \subseteq data.keys) THEN "KeyError"
    ELSE IF \E k \in notnull : IsNone(data, k) THEN "IntegrityError"
    ELSE IF \E i \in DOMAIN table : table[i].id = data.id THEN "IntegrityError"
    ELSE "none"

\* the classes caught by `except Exception`
CaughtErrors == {"KeyError", "IntegrityError"}

\* a save that commits a row whose primary key is in use
save_detection_duplicates(table, data, now) ==
    LET err == SaveError(<<>>, data, DetectionRequiredKeys, DetectionNotNull)
    IN  [ok |-> err = "none",
         raised |-> err \notin CaughtErrors \cup {"none"},
         table |-> IF err = "none" THEN Append(table, DetectionRow(data, now))
                   ELSE table]

\* db.save_detection: the value returned and the table afterwards
save_detection(table, data, now) ==
    LET err == SaveError(table, data, DetectionRequiredKeys, DetectionNotNull)
    IN  [ok |-> err = "none",
         raised |-> err \notin CaughtErrors \cup {"none"},
         table |-> IF err = "none" THEN Append(table, DetectionRow(data, now))
                   ELSE table]

\* db.save_event: the value returned and the table afterwards
save_event(table, data, now) ==
    LET err == SaveError(table, data, EventColumns, EventNotNull)
    IN  [ok |-> err = "none",
         raised |-> err \notin CaughtErrors \cup {"none"},
         table |-> IF err = "none" THEN Append(table, EventRow(data, now))
                   ELSE table]

\* a to_dict that hands the two coordinates out under each other's key
DetectionToDictSwapped(row) ==
    [keys |-> DetectionColumns, nulls |-> row.nulls, id |-> row.id,
     timestamp |-> row.timestamp, latitude |-> row.longitude,
     longitude |-> row.latitude, classification |-> row.classification,
     confidence |-> row.confidence, image_path |-> row.image_path,
     x |-> row.x, y |-> row.y, width |-> row.width, height |-> row.height]

\* Detection.to_dict
DetectionToDict(row) ==
    [keys |-> DetectionColumns, nulls |-> row.nulls, id |-> row.id,
     timestamp |-> row.timestamp, latitude |-> row.latitude,
     longitude |-> row.longitude, classification |-> row.classification,
     confidence |-> row.confidence, image_path |-> row.image_path,
     x |-> row.x, y |-> row.y, width |-> row.width, height |-> row.height]

\* Event.to_dict
EventToDict(row) ==
    [keys |-> EventColumns, nulls |-> row.nulls, id |-> row.id,
     time |-> row.time, type |-> row.type, message |-> row.message,
     severity |-> row.severity]

\* db.get_all_detections: the rows in row order
get_all_detections(table) == [i \in DOMAIN table |-> DetectionToDict(table[i])]

\* db.get_all_events
get_all_events(table) == [i \in DOMAIN table |-> EventToDict(table[i])]

HasClass(row, classification) ==
    "classification" \notin row.nulls /\ row.classification = classification

\* db.get_detections_by_classification
get_detections_by_classification(table, classification) ==
    get_all_detections(SelectSeq(table, LAMBDA row : HasClass(row, classification)))

\* statistics that count every row under every class
get_detection_stats_total(table) == [c \in StatClasses |-> Len(table)]

\* db.get_detection_stats: COUNT(*) per class
get_detection_stats(table) ==
    [c \in StatClasses |-> Cardinality({i \in DOMAIN table : HasClass(table[i], c)})]

SaveDetection(data, now) ==
    LET r == save_detection(db_detections, data, now)
    IN  /\ db_detections' = r.table
        /\ db_call' = [NoCall EXCEPT !.op = "save_detection", !.detection = data,
                                     !.ok = r.ok, !.raised = r.raised, !.now = now]
        /\ lastOp' = "save_detection"
        /\ acted' = r.ok
        /\ UNCHANGED db_events
        /\ UNCHANGED exceptDb

SaveEvent(data, now) ==
    LET r == save_event(db_events, data, now)
    IN  /\ db_events' = r.table
        /\ db_call' = [NoCall EXCEPT !.op = "save_event", !.event = data,
                                     !.ok = r.ok, !.raised = r.raised, !.now = now]
        /\ lastOp' = "save_event"
        /\ acted' = r.ok
        /\ UNCHANGED db_detections
        /\ UNCHANGED exceptDb

GetAllDetections ==
    /\ db_call' = [NoCall EXCEPT !.op = "get_all_detections",
                                 !.rows = get_all_detections(db_detections)]
    /\ lastOp' = "get_all_detections"
    /\ acted' = TRUE
    /\ UNCHANGED <<db_detections, db_events>>
    /\ UNCHANGED exceptDb

GetAllEvents ==
    /\ db_call' = [NoCall EXCEPT !.op = "get_all_events",
                                 !.rows = get_all_events(db_events)]
    /\ lastOp' = "get_all_events"
    /\ acted' = TRUE
    /\ UNCHANGED <<db_detections, db_events>>
    /\ UNCHANGED exceptDb

GetDetectionsByClassification(classification) ==
    /\ db_call' = [NoCall EXCEPT !.op = "get_detections_by_classification",
                                 !.classification = classification,
                                 !.rows = get_detections_by_classification(
                                              db_detections, classification)]
    /\ lastOp' = "get_detections_by_classification"
    /\ acted' = TRUE
    /\ UNCHANGED <<db_detections, db_events>>
    /\ UNCHANGED exceptDb

GetDetectionStats ==
    /\ db_call' = [NoCall EXCEPT !.op = "get_detection_stats",
                                 !.stats = get_detection_stats(db_detections)]
    /\ lastOp' = "get_detection_stats"
    /\ acted' = TRUE
    /\ UNCHANGED <<db_detections, db_events>>
    /\ UNCHANGED exceptDb

\* the dicts handed to save_detection: well-formed ones under two ids and
\* four classes, the first id with and without a timestamp, one with the
\* image columns, and ill-formed ones (no id key, no confidence key, None
\* id, None latitude)
GoodDetection(i, c, n) ==
    [NoDetectionData EXCEPT !.keys = DetectionRequiredKeys, !.nulls = n,
                            !.id = i, !.classification = c,
                            !.timestamp = IF n = {} THEN 1 ELSE 0,
                            !.latitude = 34052200, !.longitude = -118243700,
                            !.confidence = 7000]
GoodDetections ==
    {GoodDetection(i, c, {}) : i \in {"d1", "d2"}, c \in StatClasses \cup {"Unknown"}}
    \cup {GoodDetection("d1", c, {"timestamp"}) : c \in StatClasses \cup {"Unknown"}}
ImageDetection ==
    [NoDetectionData EXCEPT !.keys = DetectionColumns, !.id = "d2",
                            !.classification = "Landmine", !.timestamp = 1,
                            !.latitude = 34052364, !.longitude = -118243554,
                            !.confidence = 9350, !.image_path = "sample.jpg",
                            !.x = 146, !.y = 164, !.width = 35, !.height = 33]
BadDetections ==
    LET good == GoodDetection("d1", "Landmine", {})
    IN  { [good EXCEPT !.keys = @ \ {"id"}, !.id = ""],
          [good EXCEPT !.keys = @ \ {"confidence"}, !.confidence = 0],
          [good EXCEPT !.nulls = {"id"}, !.id = ""],
          [good EXCEPT !.nulls = {"latitude"}, !.latitude = 0] }
DetectionInputs == GoodDetections \cup {ImageDetection} \cup BadDetections

\* the dicts handed to save_event
GoodEvents ==
    {[NoEventData EXCEPT !.keys = EventColumns, !.nulls = n, !.id = "e1",
                         !.time = IF n = {} THEN 1 ELSE 0, !.type = "Control",
                         !.message = "Drone taking off", !.severity = s] :
        s \in {"info", "danger"}, n \in {{}, {"time"}}}
BadEvents ==
    LET good == [NoEventData EXCEPT !.keys = EventColumns, !.id = "e1",
                     !.time = 1, !.type = "Control",
                     !.message = "Drone taking off", !.severity = "info"]
    IN  { [good EXCEPT !.keys = @ \ {"message"}, !.message = ""],
          [good EXCEPT !.nulls = {"severity"}, !.severity = ""] }
EventInputs == GoodEvents \cup BadEvents

\* datetime.now() at the insert
NowSet == {2}

NextDb ==
    \/ \E data \in DetectionInputs, now \in NowSet : SaveDetection(data, now)
    \/ \E data \in EventInputs, now \in NowSet : SaveEvent(data, now)
    \/ GetAllDetections
    \/ GetAllEvents
    \/ \E c \in StatClasses \cup {"Unknown"} : GetDetectionsByClassification(c)
    \/ GetDetectionStats
SpecDb == Init /\ [][NextDb]_vars

(***************************************************************************)
(* LandmineDetector (src/image_processor.py).  The confidence of an image  *)
(* detection, and of a stored row, is in 0.01 percent (93.5 = 9350); the   *)
(* circularity of a contour in percent; confidence_threshold and the       *)
(* sensitivity slider in tenths; the threshold slider in 0.01 percent.     *)
(***************************************************************************)
detection_size_min == 15
detection_size_max == 120
circularity_threshold == 65
\* the 0.95 of min(0.95, confidence * 100)
confidence_cap == 95
\* 'Landmine' if confidence > 80
landmine_confidence == 8000
detection_base_lat == 34052200
detection_base_lng == -118243700

predefined_landmines == <<
    [x |-> 146, y |-> 164, w |-> 35, h |-> 33, confidence |-> 9350,
     classification |-> "Landmine"],
    [x |-> 396, y |-> 139, w |-> 37, h |-> 35, confidence |-> 9300,
     classification |-> "Landmine"],
    [x |-> 143, y |-> 367, w |-> 40, h |-> 38, confidence |-> 8400,
     classification |-> "Landmine"],
    [x |-> 391, y |-> 389, w |-> 42, h |-> 40, confidence |-> 9400,
     classification |-> "Landmine"] >>

\* the image paths handed to detect_landmines
DemoImage == "sample_images/landmine_detection1.jpg"
UploadedDemo == "temp_uploads/my_landmine_detection1.jpg"
FieldImage == "temp_uploads/field.jpg"
ImagePaths == {DemoImage, UploadedDemo, FieldImage}

\* "landmine_detection1.jpg" in image_path
IsDemo(path) == path \in {DemoImage, UploadedDemo}

\* os.path.join(os.path.dirname(image_path), 'processed', basename)
OutputPath(path) ==
    CASE path = DemoImage -> "sample_images/processed/landmine_detection1.jpg"
      [] path = UploadedDemo -> "temp_uploads/processed/my_landmine_detection1.jpg"
      [] path = FieldImage -> "temp_uploads/processed/field.jpg"

\* utils.generate_unique_id: the n-th uuid4 drawn, taken to be new
generate_unique_id(n) == "uuid-" \o ToString(n)

\* a latitude taken from the column of the box
ImageLatitudeFromX(x, y) == detection_base_lat + x * 1000

\* 34.0522 + (y / 1000)
ImageLatitude(x, y) == detection_base_lat + y * 1000

\* -118.2437 + (x / 1000)
ImageLongitude(x, y) == detection_base_lng + x * 1000

\* the detection dict built in detect_landmines
DetectionDict(id, now, path, box, confidence, classification) ==
    [keys |-> DetectionColumns, nulls |-> {}, id |-> id, timestamp |-> now,
     image_path |-> path, x |-> box.x, y |-> box.y, width |-> box.w,
     height |-> box.h, confidence |-> confidence,
     classification |-> classification,
     latitude |-> ImageLatitude(box.x, box.y),
     longitude |-> ImageLongitude(box.x, box.y)]

\* the branch of the demo image: one detection per predefined box
DemoDetections(path, now, drawn) ==
    [i \in DOMAIN predefined_landmines |->
        DetectionDict(generate_unique_id(drawn + i), now, path,
                      predefined_landmines[i],
                      predefined_landmines[i].confidence,
                      predefined_landmines[i].classification)]

\* the two filters of the contour loop
ContourKept(c) ==
    /\ ~(c.area < detection_size_min \/ c.area > detection_size_max)
    /\ ~(c.circularity < circularity_threshold)

\* circularity * 0.7 + (area / detection_size_max) * 0.3, times 100
ContourScore(c) == 70 * c.circularity + (c.area * 3000) \div detection_size_max

\* min(0.95, confidence * 100)
ContourConfidence(c) == Min(confidence_cap, ContourScore(c))

\* the branch of any other image: one detection per kept contour
ContourDetections(path, now, drawn, contours) ==
    LET kept == SelectSeq(contours, ContourKept)
    IN  [i \in DOMAIN kept |->
            DetectionDict(generate_unique_id(drawn + i), now, path, kept[i],
                          ContourConfidence(kept[i]),
                          IF ContourConfidence(kept[i]) > landmine_confidence
                          THEN "Landmine" ELSE "Metal Debris")]

\* for detection in detections: save_detection(detection)
RECURSIVE SaveAll(_, _, _)
SaveAll(table, detections, now) ==
    IF detections = <<>> THEN table
    ELSE SaveAll(save_detection(table, Head(detections), now).table,
                 Tail(detections), now)

\* an error raised for a missing file only
DetectErrorMissingOnly(file) ==
    IF file = "missing" THEN "FileNotFoundError" ELSE "none"

\* what the head of the try block raises: os.path.exists fails, or
\* cv2.imread returns None
DetectError(file) ==
    IF file = "missing" THEN "FileNotFoundError"
    ELSE IF file = "unreadable" THEN "ValueError"
    ELSE "none"

\* the classes caught by `except Exception` in detect_landmines
DetectCaught == {"FileNotFoundError", "ValueError"}

\* LandmineDetector.detect_landmines; file and contours are what the file
\* system and OpenCV give for the path.  The processed copy is taken to be
\* written (os.makedirs and cv2.imwrite succeed).
DetectLandmines(path, file, contours, now) ==
    LET err == DetectError(file)
        detections == IF IsDemo(path) THEN DemoDetections(path, now, uuid_count)
                      ELSE ContourDetections(path, now, uuid_count, contours)
    IN  /\ IF err = "none"
           THEN /\ processed_images' = (path :> OutputPath(path)) @@ processed_images
                /\ detection_results' = (path :> detections) @@ detection_results
                /\ db_detections' = SaveAll(db_detections, detections, now)
                /\ uuid_count' = uuid_count + Len(detections)
                /\ detect_call' = [path |-> path, file |-> file,
                                   contours |-> contours, ret |-> detections,
                                   raised |-> FALSE]
           ELSE /\ detect_call' = [path |-> path, file |-> file,
                                   contours |-> contours, ret |-> <<>>,
                                   raised |-> err \notin DetectCaught]
                /\ UNCHANGED <<processed_images, detection_results,
                               db_detections, uuid_count>>
        /\ lastOp' = "detect_landmines"
        /\ acted' = (err = "none")
        /\ UNCHANGED <<confidence_threshold, db_events, db_call>>
        /\ UNCHANGED <<droneVars, detVars, sensorVars, dashVars>>

\* LandmineDetector.get_processed_image_path; "" for None
get_processed_image_path(path) ==
    IF path \in DOMAIN processed_images THEN processed_images[path] ELSE ""

\* Settings tab: the run started by a click on Apply Settings, with the two
\* sliders at sensitivity and threshold
ApplySettings(sensitivity, threshold) ==
    /\ confidence_threshold' = sensitivity
    /\ applied_settings' = [applied |-> TRUE, sensitivity |-> sensitivity,
                            threshold |-> threshold]
    /\ lastOp' = "apply_settings"
    /\ acted' = TRUE
    /\ confirm_checkbox' = "absent"
    /\ UNCHANGED <<processed_images, detection_results, detect_call, uuid_count>>
    /\ UNCHANGED <<dashboard, events, session_detections,
                   session_processed_images, session_is_flying,
                   event_stream, clock>>
    /\ UNCHANGED <<droneVars, detVars, sensorVars, dbVars>>

\* contours as OpenCV finds them: area in pixels, circularity in percent and
\* the bounding box; too small, at the two lower limits, in the middle, at
\* the upper limits, too large, and not round enough
Contour(a, c, x, y) == [area |-> a, circularity |-> c, x |-> x, y |-> y,
                        w |-> 10, h |-> 10]
ContourSets == {
    <<>>,
    <<Contour(15, 65, 20, 30)>>,
    <<Contour(14, 90, 5, 5), Contour(60, 80, 40, 50), Contour(120, 100, 70, 80)>>,
    <<Contour(121, 90, 6, 6), Contour(60, 64, 7, 7)>> }
\* what is at a path and what OpenCV finds there: nothing, a file that is
\* no image, or an image with its contours
DetectInputs ==
    {<<path, file, <<>> >> : path \in ImagePaths, file \in {"missing", "unreadable"}}
    \cup {<<path, "image", contours>> : path \in ImagePaths, contours \in ContourSets}
\* the Detection Sensitivity and Confidence Threshold sliders
SettingsSet == {<<5, 9000>>, <<10, 9500>>}

\* no detect_landmines call is started once this many uuids were drawn
MaxUuids == 5

NextImage ==
    \/ \E in \in DetectInputs, now \in NowSet :
           uuid_count < MaxUuids /\ DetectLandmines(in[1], in[2], in[3], now)
    \/ \E s \in SettingsSet : ApplySettings(s[1], s[2])
SpecImage == Init /\ [][NextImage]_vars

(***************************************************************************)
(* The two dashboards (src/app.py, src/landmine_detection_app.py) under    *)
(* Streamlit's rerun model: a click starts one run of the script, in which *)
(* the clicked button, and no other, returns True; every run renders the   *)
(* Event Stream.  datetime.now() reads a clock that moves on between two   *)
(* events.                                                                 *)
(***************************************************************************)
display_limit == 10

\* reversed(st.session_state.events)
RECURSIVE Reversed(_)
Reversed(seq) ==
    IF seq = <<>> THEN <<>> ELSE Append(Reversed(Tail(seq)), Head(seq))

\* an Event Stream that shows the first events of the list
recent_events_oldest(list) == SubSeq(list, 1, Min(display_limit, Len(list)))

\* recent_events = list(reversed(st.session_state.events))[:10]
recent_events(list) ==
    SubSeq(Reversed(list), 1, Min(display_limit, Len(list)))

\* the event_data dict the handlers build
EventData(id, now, type, message, severity) ==
    [keys |-> EventColumns, nulls |-> {}, id |-> id, time |-> now,
     type |-> type, message |-> message, severity |-> severity]

\* session start of app.py: the lists are loaded from the datastore
StartApp ==
    /\ dashboard = "none"
    /\ dashboard' = "app"
    /\ events' = get_all_events(db_events)
    /\ session_detections' = get_all_detections(db_detections)
    /\ session_is_flying' = FALSE
    /\ event_stream' = recent_events(events')
    /\ lastOp' = "start app"
    /\ acted' = TRUE
    /\ UNCHANGED <<session_processed_images, confirm_checkbox, clock,
                   applied_settings>>
    /\ UNCHANGED <<droneVars, detVars, sensorVars, dbVars, imageVars>>

\* session start of landmine_detection_app.py
StartLandmineApp ==
    /\ dashboard = "none"
    /\ dashboard' = "landmine_detection_app"
    /\ events' = get_all_events(db_events)
    /\ session_detections' = get_all_detections(db_detections)
    /\ session_processed_images' = <<>>
    /\ event_stream' = recent_events(events')
    /\ lastOp' = "start landmine_detection_app"
    /\ acted' = TRUE
    /\ UNCHANGED <<session_is_flying, confirm_checkbox, clock, applied_settings>>
    /\ UNCHANGED <<droneVars, detVars, sensorVars, dbVars, imageVars>>

\* an event that is appended to the session list and not saved
AppLogSessionOnly(message, severity) ==
    LET event_data == EventData(generate_unique_id(uuid_count + 1), clock,
                                "CONTROL", message, severity)
    IN  /\ events' = Append(events, event_data)
        /\ db_events' = db_events
        /\ uuid_count' = uuid_count + 1
        /\ clock' = clock + 1
        /\ event_stream' = recent_events(events')

\* app.py: event_data appended to the session list and saved
AppLog(message, severity) ==
    LET event_data == EventData(generate_unique_id(uuid_count + 1), clock,
                                "CONTROL", message, severity)
    IN  /\ events' = Append(events, event_data)
        /\ db_events' = save_event(db_events, event_data, clock).table
        /\ uuid_count' = uuid_count + 1
        /\ clock' = clock + 1
        /\ event_stream' = recent_events(events')

\* app.py: the Land button (shown in flight) or the Take Off button
AppToggleFlight ==
    /\ dashboard = "app"
    /\ IF session_is_flying
       THEN /\ DroneLand
            /\ session_is_flying' = FALSE
            /\ AppLog("Drone landed", "info")
            /\ lastOp' = "Land"
       ELSE /\ DroneTakeoff
            /\ session_is_flying' = TRUE
            /\ AppLog("Drone took off", "info")
            /\ lastOp' = "Take Off"
    /\ acted' = TRUE
    /\ UNCHANGED <<dashboard, session_detections, session_processed_images,
                   confirm_checkbox, applied_settings>>
    /\ UNCHANGED <<db_detections, db_call, processed_images, detection_results,
                   confidence_threshold, detect_call>>
    /\ UNCHANGED <<detVars, sensorVars>>

\* app.py: the Emergency Stop button
AppEmergencyStop ==
    /\ dashboard = "app"
    /\ DroneEmergencyStop
    /\ session_is_flying' = FALSE
    /\ AppLog("EMERGENCY STOP triggered", "danger")
    /\ lastOp' = "Emergency Stop"
    /\ acted' = TRUE
    /\ UNCHANGED <<dashboard, session_detections, session_processed_images,
                   confirm_checkbox, applied_settings>>
    /\ UNCHANGED <<db_detections, db_call, processed_images, detection_results,
                   confidence_threshold, detect_call>>
    /\ UNCHANGED <<detVars, sensorVars>>

\* app.py: the Return Home button, enabled on the ground as in flight
AppReturnHome ==
    /\ dashboard = "app"
    /\ DroneReturnToHome
    /\ AppLog("Return to home initiated", "warning")
    /\ lastOp' = "Return Home"
    /\ acted' = TRUE
    /\ UNCHANGED <<dashboard, session_detections, session_processed_images,
                   session_is_flying, confirm_checkbox, applied_settings>>
    /\ UNCHANGED <<db_detections, db_call, processed_images, detection_results,
                   confidence_threshold, detect_call>>
    /\ UNCHANGED <<detVars, sensorVars>>

\* the severity app.py gives a DETECTION event
DetectionSeverity(classification) ==
    IF classification = "Landmine" THEN "danger"
    ELSE IF classification = "Metal Debris" THEN "warning"
    ELSE "info"

\* app.py: the Refresh Status button.  update_status runs elapsed seconds
\* after the last one; in flight check_for_detection is asked about the
\* drone's position, and a detection is appended to the session lists and
\* saved with a DETECTION event.
AppRefreshStatus(elapsed, draws, rnd, pick, conf) ==
    LET result == is_near_hotspot(latitude, longitude, draws, rnd, pick, conf)
        found == session_is_flying /\ Truthy(result[1])
        new_detection ==
            [NoDetectionData EXCEPT !.keys = DetectionRequiredKeys,
                                    !.id = generate_unique_id(uuid_count + 1),
                                    !.timestamp = clock,
                                    !.latitude = latitude,
                                    !.longitude = longitude,
                                    !.classification = result[1],
                                    !.confidence = 100 * result[2]]
        event_data ==
            EventData(generate_unique_id(uuid_count + 2), clock + 1, "DETECTION",
                      result[1] \o " detected with " \o ToString(result[2])
                                \o ".00% confidence",
                      DetectionSeverity(result[1]))
    IN  /\ dashboard = "app"
        /\ DroneUpdateStatus(elapsed, FALSE, 0, 0, 0, 0)
        /\ IF session_is_flying
           THEN /\ query' = <<latitude, longitude>>
                /\ near' = result
                /\ detection' = DetectionRecord(latitude, longitude, result)
                /\ random_draw' = rnd
                /\ hotspot_draws' = draws
           ELSE UNCHANGED detVars
        /\ IF found
           THEN /\ session_detections' = Append(session_detections, new_detection)
                /\ events' = Append(events, event_data)
                /\ db_detections' =
                       save_detection(db_detections, new_detection, clock + 1).table
                /\ db_events' = save_event(db_events, event_data, clock + 1).table
                /\ uuid_count' = uuid_count + 2
                /\ clock' = clock + 2
           ELSE UNCHANGED <<session_detections, events, db_detections, db_events,
                            uuid_count, clock>>
        /\ event_stream' = recent_events(events')
        /\ lastOp' = "Refresh Status"
        /\ acted' = found
        /\ UNCHANGED <<dashboard, session_processed_images, session_is_flying,
                       confirm_checkbox, applied_settings>>
        /\ UNCHANGED <<db_call, processed_images, detection_results,
                       confidence_threshold, detect_call>>
        /\ UNCHANGED sensorVars

\* landmine_detection_app.add_event, drawing the n-th uuid: the event is
\* saved and the session list reloaded from the datastore
add_event(n, event_type, message, severity) ==
    LET event_data == EventData(generate_unique_id(n), clock, event_type,
                                message, severity)
    IN  /\ db_events' = save_event(db_events, event_data, clock).table
        /\ events' = get_all_events(db_events')
        /\ uuid_count' = n
        /\ clock' = clock + 1
        /\ event_stream' = recent_events(events')

\* landmine_detection_app.py: the Land Drone button (shown in flight) or the
\* Take Off button; the run does not reach the confirmation checkbox
LmToggleFlight ==
    /\ dashboard = "landmine_detection_app"
    /\ IF is_flying
       THEN /\ DroneLand
            /\ add_event(uuid_count + 1, "Control", "Landing drone", "info")
            /\ lastOp' = "Land Drone"
       ELSE /\ DroneTakeoff
            /\ add_event(uuid_count + 1, "Control", "Drone taking off", "info")
            /\ lastOp' = "Take Off"
    /\ confirm_checkbox' = "absent"
    /\ acted' = TRUE
    /\ UNCHANGED <<dashboard, session_detections, session_processed_images,
                   session_is_flying, applied_settings>>
    /\ UNCHANGED <<db_detections, db_call, processed_images, detection_results,
                   confidence_threshold, detect_call>>
    /\ UNCHANGED <<detVars, sensorVars>>

\* landmine_detection_app.py: EMERGENCY STOP, disabled on the ground
LmEmergencyStop ==
    /\ dashboard = "landmine_detection_app"
    /\ is_flying
    /\ DroneEmergencyStop
    /\ add_event(uuid_count + 1, "Emergency", "Emergency stop initiated", "danger")
    /\ confirm_checkbox' = "absent"
    /\ lastOp' = "EMERGENCY STOP"
    /\ acted' = TRUE
    /\ UNCHANGED <<dashboard, session_detections, session_processed_images,
                   session_is_flying, applied_settings>>
    /\ UNCHANGED <<db_detections, db_call, processed_images, detection_results,
                   confidence_threshold, detect_call>>
    /\ UNCHANGED <<detVars, sensorVars>>

\* landmine_detection_app.py: Process Sample Image, offered while the
\* session has no processed copy of the sample; file and contours are what
\* the file system and OpenCV give for the sample
LmProcessSample(file, contours) ==
    LET err == DetectError(file)
        found == DemoDetections(DemoImage, clock, uuid_count)
    IN  /\ dashboard = "landmine_detection_app"
        /\ DemoImage \notin DOMAIN session_processed_images
        /\ IF err = "none"
           THEN /\ processed_images' = (DemoImage :> OutputPath(DemoImage)) @@ processed_images
                /\ detection_results' = (DemoImage :> found) @@ detection_results
                /\ db_detections' = SaveAll(db_detections, found, clock)
                /\ detect_call' = [path |-> DemoImage, file |-> file,
                                   contours |-> contours, ret |-> found,
                                   raised |-> FALSE]
                /\ session_processed_images' =
                       (DemoImage :> processed_images'[DemoImage]) @@ session_processed_images
                /\ session_detections' = get_all_detections(db_detections')
                /\ add_event(uuid_count + Len(found) + 1, "Processing",
                             "Analyzed sample image, found 4 potential objects",
                             IF \E i \in DOMAIN found : found[i].classification = "Landmine"
                             THEN "warning" ELSE "info")
           ELSE /\ detect_call' = [path |-> DemoImage, file |-> file,
                                   contours |-> contours, ret |-> <<>>,
                                   raised |-> err \notin DetectCaught]
                /\ UNCHANGED <<processed_images, detection_results, db_detections,
                               session_processed_images, session_detections,
                               db_events, events, uuid_count, clock, event_stream>>
        /\ confirm_checkbox' = "absent"
        /\ lastOp' = "Process Sample Image"
        /\ acted' = (err = "none")
        /\ UNCHANGED <<dashboard, session_is_flying, applied_settings>>
        /\ UNCHANGED <<db_call, confidence_threshold>>
        /\ UNCHANGED <<droneVars, detVars, sensorVars>>

\* landmine_detection_app.py: the run started by a click on Clear All
\* Detections.  The checkbox is created inside the button's block, so it
\* holds a tick only if the run before rendered it and left it ticked.
ClickClearAll ==
    LET confirm == confirm_checkbox = "ticked"
    IN  /\ dashboard = "landmine_detection_app"
        /\ IF confirm
           THEN /\ session_detections' = <<>>
                /\ session_processed_images' = <<>>
                /\ add_event(uuid_count + 1, "System",
                             "All detection data cleared", "warning")
           ELSE UNCHANGED <<session_detections, session_processed_images,
                            db_events, events, uuid_count, clock, event_stream>>
        /\ confirm_checkbox' = IF confirm THEN "ticked" ELSE "unticked"
        /\ lastOp' = "Clear All Detections"
        /\ acted' = confirm
        /\ UNCHANGED <<dashboard, session_is_flying, applied_settings>>
        /\ UNCHANGED <<db_detections, db_call, imageVars>>
        /\ UNCHANGED <<droneVars, detVars, sensorVars>>

\* landmine_detection_app.py: the run started by a tick of 'I understand
\* this will delete all detection data'.  No button was clicked, so the
\* Clear All Detections block, and the checkbox in it, is skipped.
TickConfirm ==
    /\ dashboard = "landmine_detection_app"
    /\ confirm_checkbox = "unticked"
    /\ confirm_checkbox' = "absent"
    /\ lastOp' = "I understand this will delete all detection data"
    /\ acted' = FALSE
    /\ UNCHANGED <<dashboard, events, session_detections,
                   session_processed_images, session_is_flying,
                   event_stream, clock, applied_settings>>
    /\ UNCHANGED <<droneVars, detVars, sensorVars, dbVars, imageVars>>

\* no event is logged once this many are stored
MaxEvents == 11

NextDash ==
    \/ StartApp
    \/ StartLandmineApp
    \/ Len(db_events) < MaxEvents /\ AppToggleFlight
    \/ Len(db_events) < MaxEvents /\ AppEmergencyStop
    \/ Len(db_events) < MaxEvents /\ LmToggleFlight
    \/ Len(db_events) < MaxEvents /\ LmEmergencyStop
    \/ \E file \in {"unreadable", "image"}, contours \in {<<>>} :
           Len(db_events) < MaxEvents /\ LmProcessSample(file, contours)
    \/ ClickClearAll
    \/ TickConfirm
SpecDash == Init /\ [][NextDash]_vars

\* app.py alone, every control in use.  The drone hovers over its home, a
\* position inside a landmine hotspot and the three debris hotspots: a
\* refresh finds nothing (every draw fails), a landmine, or metal debris.
\* Time passes between two refreshes only when the second logs an event.
HomeDraws(landmine, debris) ==
    [k \in Containing(initial_lat, initial_lng) |->
        IF k[1] = 1 THEN landmine ELSE debris]
RefreshInputs == {
    [elapsed |-> 0, draws |-> HomeDraws(95, 95), rnd |-> 50, pick |-> "None", conf |-> 0],
    [elapsed |-> 10, draws |-> HomeDraws(35, 35), rnd |-> 50, pick |-> "None", conf |-> 0],
    [elapsed |-> 10, draws |-> HomeDraws(95, 35), rnd |-> 50, pick |-> "None", conf |-> 0],
    [elapsed |-> 10, draws |-> HomeDraws(95, 95), rnd |-> 2, pick |-> "Safe Zone", conf |-> 83] }

\* no event is logged by app.py once this many are in the session list
MaxAppEvents == 4

NextApp ==
    \/ StartApp
    \/ Len(events) < MaxAppEvents /\ AppToggleFlight
    \/ Len(events) < MaxAppEvents /\ AppReturnHome
    \/ Len(events) < MaxAppEvents /\ AppEmergencyStop
    \/ \E in \in RefreshInputs :
           /\ Len(events) < MaxAppEvents
           /\ in.elapsed = 0 \/ session_is_flying
           /\ AppRefreshStatus(in.elapsed, in.draws, in.rnd, in.pick, in.conf)
SpecApp == Init /\ [][NextApp]_vars

(***************************************************************************)
(* Properties.                                                             *)
(***************************************************************************)
NavOps == {"move_forward", "move_backward", "move_left", "move_right",
           "move_up", "move_down", "return_to_home"}

\* C1: after any sequence of operations (update_status with non-negative
\* elapsed time) the battery level is between 0 and 100 percent.
C1_BatteryInRange == 0 <= battery_level /\ battery_level <= 10000

\* a move made in flight has run the battery down to 0
C1_Witness ==
    is_flying /\ lastOp = "move_forward" /\ acted /\ battery_level = 0

\* C2: is_flying turns true only by takeoff and false only by land or
\* emergency_stop; the moves, return_to_home and update_status never change
\* it, whatever the battery level.
C2_FlyingOnlyByTakeoffLand ==
    [][ /\ (~is_flying /\ is_flying') => lastOp' = "takeoff"
        /\ (is_flying /\ ~is_flying') => lastOp' \in {"land", "emergency_stop"}
        /\ lastOp' \in NavOps \cup {"update_status"} => is_flying' = is_flying
      ]_vars

\* update_status has found the battery empty and the drone still flies
C2_Witness == is_flying /\ battery_level = 0 /\ lastOp = "update_status"

\* C3: while is_flying is false the six moves and return_to_home leave
\* latitude, longitude, altitude, speed, heading and battery_level unchanged.
C3_NoNavigationOnGround ==
    [][ (~is_flying /\ lastOp' \in NavOps) =>
            UNCHANGED <<latitude, longitude, altitude, speed, heading,
                        battery_level>> ]_vars

\* return_to_home was asked of a landed drone away from home
C3_Witness ==
    /\ ~is_flying /\ lastOp = "return_to_home" /\ ~acted
    /\ latitude # initial_lat

\* C4: while flying 5 <= altitude <= 50; move_up at 50 and move_down at 5
\* change neither altitude nor battery_level.
C4_AltitudeClamped ==
    /\ [](is_flying => (5 <= altitude /\ altitude <= 50))
    /\ [][ /\ (lastOp' = "move_up" /\ is_flying /\ altitude = 50) =>
                UNCHANGED <<altitude, battery_level>>
           /\ (lastOp' = "move_down" /\ is_flying /\ altitude = 5) =>
                UNCHANGED <<altitude, battery_level>> ]_vars

\* move_up was refused at the ceiling, with battery left to spend
C4_Witness ==
    /\ is_flying /\ lastOp = "move_up" /\ ~acted
    /\ altitude = 50 /\ battery_level > 0

\* C5: whenever the drone is not flying its altitude and its speed are 0.
C5_GroundedWhenNotFlying == ~is_flying => (altitude = 0 /\ speed = 0)

\* C6: after return_to_home in flight the drone is at its initial position.
C6_ReturnReachesHome ==
    (lastOp = "return_to_home" /\ acted) =>
        (latitude = initial_lat /\ longitude = initial_lng)

MovedBy(dlat, dlng, hdg) ==
    /\ latitude' = latitude + dlat
    /\ longitude' = longitude + dlng
    /\ heading' = hdg
    /\ speed' = 20
    /\ battery_level' = (IF battery_level >= 20 THEN battery_level - 20 ELSE 0)
    /\ UNCHANGED <<altitude, is_flying>>

\* C7: in flight move_forward / move_backward / move_left / move_right change
\* one coordinate by 0.0001 (latitude +, latitude -, longitude -,
\* longitude +), set heading 0 / 180 / 270 / 90 and speed 2.0, take 0.2 off
\* the battery (floored at 0) and leave altitude and is_flying alone.
C7_MovementRules ==
    [][ is_flying =>
          /\ (lastOp' = "move_forward" => MovedBy(100, 0, 0))
          /\ (lastOp' = "move_backward" => MovedBy(-100, 0, 180))
          /\ (lastOp' = "move_left" => MovedBy(0, -100, 270))
          /\ (lastOp' = "move_right" => MovedBy(0, 100, 90)) ]_vars

\* forward then backward: back at the starting position, two moves paid
C7_Witness ==
    /\ is_flying /\ lastOp = "move_backward" /\ acted
    /\ latitude = initial_lat /\ longitude = initial_lng
    /\ heading = 180 /\ battery_level = full_battery - 40

\* C8: 60 <= signal_strength <= 100 always; only update_status changes it,
\* by at most 2 per call.
C8_SignalClamped ==
    /\ [](60 <= signal_strength /\ signal_strength <= 100)
    /\ [][ /\ lastOp' # "update_status" => signal_strength' = signal_strength
           /\ signal_strength' - signal_strength <= 2
           /\ signal_strength - signal_strength' <= 2 ]_vars

\* update_status has brought the signal down to its floor
C8_Witness == signal_strength = 60 /\ lastOp = "update_status"

\* strictly inside hotspot k, stated on the coordinates
StrictlyInside(q, k) ==
    LET h == HotspotLists[k[1]][k[2]]
    IN  (q[1] - h.lat) * (q[1] - h.lat) + (q[2] - h.lon) * (q[2] - h.lon)
            < h.radius * h.radius

\* C9 as claimed: a classification is returned only strictly inside a
\* hotspot of that classification, and outside every hotspot the result is
\* (None, 0) whatever the random draws.
C9_OnlyNearHotspots ==
    lastOp = "check" =>
        /\ near[1] # "None" =>
              \E k \in HotspotKeys : StrictlyInside(query, k) /\ Classes[k[1]] = near[1]
        /\ (\A k \in HotspotKeys : ~StrictlyInside(query, k)) => near = <<"None", 0>>

\* C9 as amended: a classification comes from a hotspot of that
\* classification that strictly contains the position (confidence 100 x its
\* probability) or from the 5 percent random detection (one of the three
\* classes, confidence in [70, 95]); outside every hotspot the result is
\* (None, 0) exactly when the random detection does not fire.
C9_HotspotOrRandom ==
    lastOp = "check" =>
        /\ near[1] # "None" =>
              \/ \E k \in HotspotKeys :
                    /\ StrictlyInside(query, k)
                    /\ Classes[k[1]] = near[1]
                    /\ near[2] = HotspotLists[k[1]][k[2]].probability
              \/ /\ random_draw < 5
                 /\ near[1] \in {"Landmine", "Metal Debris", "Safe Zone"}
                 /\ 70 <= near[2] /\ near[2] <= 95
        /\ (\A k \in HotspotKeys : ~StrictlyInside(query, k)) =>
              ((near = <<"None", 0>>) <=> (random_draw >= 5))

\* a random detection at a position outside every hotspot
C9_Witness ==
    /\ lastOp = "check" /\ near[1] = "Landmine"
    /\ \A k \in HotspotKeys : ~StrictlyInside(query, k)

\* C10: check_for_detection returns None exactly when is_near_hotspot gives
\* no type; otherwise a record with the arguments as latitude and longitude,
\* one of the three classifications and a confidence between 40 and 95.
C10_DetectionRecord ==
    lastOp = "check" =>
        /\ (detection = NoDetection) <=> (near[1] = "None")
        /\ detection # NoDetection =>
              /\ detection.latitude = query[1]
              /\ detection.longitude = query[2]
              /\ detection.classification \in {"Landmine", "Metal Debris", "Safe Zone"}
              /\ detection.classification = near[1]
              /\ detection.confidence = near[2]
              /\ 40 <= detection.confidence /\ detection.confidence <= 95

\* the weakest hotspot (probability 0.4) matched: confidence 40
C10_Witness ==
    /\ lastOp = "check" /\ detection # NoDetection
    /\ detection.classification = "Metal Debris" /\ detection.confidence = 40

\* C11: every metal and thermal reading, at every position, noise draw and
\* hour of day, lies between 0 and 100 percent.
C11_ReadingInRange == 0 <= sensor.reading /\ sensor.reading <= max_reading

\* a reading taken where the computed value exceeds 100 percent: at the
\* centre of a landmine hotspot with the largest noise
C11_Witness ==
    /\ sensor.kind \in {"metal", "thermal"}
    /\ sensor.raw > max_reading
    /\ sensor.reading = max_reading

\* the last element of a non-empty sequence
Last(seq) == seq[Len(seq)]
\* seq2 is seq1 with n more elements at its end
ExtendedBy(seq1, seq2, n) ==
    Len(seq2) = Len(seq1) + n /\ SubSeq(seq2, 1, Len(seq1)) = seq1
\* key k has the same value, or is None, in both dicts
SameEntry(d, r, k) ==
    /\ IsNone(d, k) <=> IsNone(r, k)
    /\ ~IsNone(d, k) => d[k] = r[k]

\* C12: save_detection and save_event never raise; they return False, and
\* leave both tables as they were, when a required key is missing, a
\* mandatory field is None or the id is already stored; otherwise they
\* return True and the table has gained one row with that id.
C12_FailedWriteContained ==
    [][ /\ lastOp' = "save_detection" =>
            LET d == db_call'.detection
                failing ==
                    \/ ~(DetectionRequiredKeys \subseteq d.keys)
                    \/ \E k \in DetectionNotNull : k \in d.nulls
                    \/ \E i \in DOMAIN db_detections : db_detections[i].id = d.id
            IN  /\ ~db_call'.raised
                /\ db_call'.ok = ~failing
                /\ db_call'.ok <=> db_detections' # db_detections
                /\ db_call'.ok => /\ ExtendedBy(db_detections, db_detections', 1)
                                  /\ Last(db_detections').id = d.id
                /\ db_events' = db_events
        /\ lastOp' = "save_event" =>
            LET d == db_call'.event
                failing ==
                    \/ ~(EventColumns \subseteq d.keys)
                    \/ \E k \in EventNotNull : k \in d.nulls
                    \/ \E i \in DOMAIN db_events : db_events[i].id = d.id
            IN  /\ ~db_call'.raised
                /\ db_call'.ok = ~failing
                /\ db_call'.ok <=> db_events' # db_events
                /\ db_call'.ok => /\ ExtendedBy(db_events, db_events', 1)
                                  /\ Last(db_events').id = d.id
                /\ db_detections' = db_detections ]_vars

\* a detection whose id is already stored has been refused, with rows stored
C12_Witness ==
    /\ lastOp = "save_detection"
    /\ ~db_call.ok
    /\ DetectionRequiredKeys \subseteq db_call.detection.keys
    /\ db_call.detection.nulls = {}
    /\ \E i \in DOMAIN db_detections : db_detections[i].id = db_call.detection.id
    /\ Len(db_detections) = 2

\* the tables only grow, by one row for each save that returned True
TablesGrowBySaves ==
    /\ ExtendedBy(get_all_detections(db_detections), get_all_detections(db_detections'),
                  IF lastOp' = "save_detection" /\ db_call'.ok THEN 1 ELSE 0)
    /\ ExtendedBy(get_all_events(db_events), get_all_events(db_events'),
                  IF lastOp' = "save_event" /\ db_call'.ok THEN 1 ELSE 0)

\* C13 as stated: the tables only grow, by one record per successful save,
\* and that record has the id, timestamp, latitude, longitude,
\* classification and confidence (id, time, type, message, severity) that
\* were saved.
C13_RoundTripExact ==
    [][ /\ TablesGrowBySaves
        /\ lastOp' = "save_detection" /\ db_call'.ok =>
            \A k \in DetectionRequiredKeys :
                SameEntry(db_call'.detection, Last(get_all_detections(db_detections')), k)
        /\ lastOp' = "save_event" /\ db_call'.ok =>
            \A k \in EventColumns :
                SameEntry(db_call'.event, Last(get_all_events(db_events')), k) ]_vars

\* C13: the tables only grow, by one record per successful save; that record
\* has the id, latitude, longitude, classification and confidence (id, type,
\* message, severity) that were saved, and the timestamp (time) that was
\* saved when there was one, the time of the insert otherwise.
C13_RoundTrip ==
    [][ /\ TablesGrowBySaves
        /\ lastOp' = "save_detection" /\ db_call'.ok =>
            LET d == db_call'.detection
                r == Last(get_all_detections(db_detections'))
            IN  /\ \A k \in DetectionRequiredKeys \ {"timestamp"} : SameEntry(d, r, k)
                /\ ~IsNone(r, "timestamp")
                /\ r.timestamp = IF IsNone(d, "timestamp") THEN db_call'.now
                                 ELSE d.timestamp
        /\ lastOp' = "save_event" /\ db_call'.ok =>
            LET d == db_call'.event
                r == Last(get_all_events(db_events'))
            IN  /\ \A k \in EventColumns \ {"time"} : SameEntry(d, r, k)
                /\ ~IsNone(r, "time")
                /\ r.time = IF IsNone(d, "time") THEN db_call'.now ELSE d.time ]_vars

\* a detection saved without a timestamp is stored, after another one, with
\* the time of the insert
C13_Witness ==
    /\ lastOp = "save_detection"
    /\ db_call.ok
    /\ IsNone(db_call.detection, "timestamp")
    /\ Len(db_detections) = 2
    /\ Last(get_all_detections(db_detections)).timestamp = db_call.now
    /\ Last(get_all_detections(db_detections)).id = db_call.detection.id

\* C14: get_detection_stats gives, for each of the three classes, the number
\* of stored detections of that class, which is the length of
\* get_detections_by_classification for it; when every stored detection is
\* of one of the three classes the counts add up to the number of stored
\* detections.
C14_StatsCountByClass ==
    db_call.op = "get_detection_stats" =>
        LET stats == db_call.stats
            all == get_all_detections(db_detections)
        IN  /\ DOMAIN stats = StatClasses
            /\ \A c \in StatClasses :
                /\ stats[c] = Cardinality({i \in DOMAIN all : all[i].classification = c})
                /\ stats[c] = Len(get_detections_by_classification(db_detections, c))
            /\ (\A i \in DOMAIN all : all[i].classification \in StatClasses) =>
                   stats["Landmine"] + stats["Metal Debris"] + stats["Safe Zone"]
                       = Len(all)

\* statistics asked for with one landmine and one safe zone stored
C14_Witness ==
    /\ lastOp = "get_detection_stats"
    /\ db_call.op = "get_detection_stats"
    /\ Len(db_detections) = 2
    /\ db_call.stats["Landmine"] = 1
    /\ db_call.stats["Safe Zone"] = 1

\* the image paths that contain 'landmine_detection1.jpg'
DemoNamed == {"sample_images/landmine_detection1.jpg",
              "temp_uploads/my_landmine_detection1.jpg"}

\* C15: detect_landmines on a readable image whose path contains
\* 'landmine_detection1.jpg' returns, whatever contours the pixels give, the
\* four predefined boxes in table order, each a Landmine with its predefined
\* confidence, latitude 34.0522 + y/1000 and longitude -118.2437 + x/1000,
\* and appends the four to the stored detections.
C15_DemoImageHardcoded ==
    [][ (/\ lastOp' = "detect_landmines"
         /\ detect_call'.file = "image"
         /\ detect_call'.path \in DemoNamed) =>
            LET ret == detect_call'.ret
                stored == get_all_detections(db_detections')
            IN  /\ Len(ret) = 4
                /\ \A i \in 1..4 :
                    /\ ret[i].classification = "Landmine"
                    /\ ret[i].x = predefined_landmines[i].x
                    /\ ret[i].y = predefined_landmines[i].y
                    /\ ret[i].width = predefined_landmines[i].w
                    /\ ret[i].height = predefined_landmines[i].h
                    /\ ret[i].confidence = predefined_landmines[i].confidence
                    /\ ret[i].latitude = 34052200 + ret[i].y * 1000
                    /\ ret[i].longitude = -118243700 + ret[i].x * 1000
                    /\ stored[Len(db_detections) + i] = ret[i]
                /\ ExtendedBy(db_detections, db_detections', 4) ]_vars

\* the demo boxes returned and stored for an uploaded image with that name
\* whose pixels give three contours
C15_Witness ==
    /\ lastOp = "detect_landmines"
    /\ detect_call.path = "temp_uploads/my_landmine_detection1.jpg"
    /\ detect_call.file = "image"
    /\ Len(detect_call.contours) = 3
    /\ Len(detect_call.ret) = 4
    /\ detect_call.ret[3].confidence = 8400
    /\ Len(db_detections) = 4

\* C16: detect_landmines never raises; for a path with no file or with a
\* file that is no image it returns the empty list, stores no detection and
\* leaves processed_images and detection_results as they were, so a path
\* that had no processed image still has none.
C16_UnreadableImageContained ==
    [][ lastOp' = "detect_landmines" =>
            /\ ~detect_call'.raised
            /\ detect_call'.file \in {"missing", "unreadable"} =>
                /\ detect_call'.ret = <<>>
                /\ db_detections' = db_detections
                /\ processed_images' = processed_images
                /\ detection_results' = detection_results
                /\ detect_call'.path \notin DOMAIN processed_images =>
                       detect_call'.path \notin DOMAIN processed_images' ]_vars

\* a file that is no image was refused after another image was processed
C16_Witness ==
    /\ lastOp = "detect_landmines"
    /\ detect_call.file = "unreadable"
    /\ detect_call.ret = <<>>
    /\ get_processed_image_path(detect_call.path) = ""
    /\ DOMAIN processed_images # {}
    /\ Len(db_detections) > 0

\* C17: for an image without the demo name, the detections are the contours
\* with area in [15, 120] and circularity >= 0.65, in order, each with
\* confidence min(95, 100 x (0.7 x circularity + 0.3 x area/120)) percent.
C17_ConfidenceCappedAt95 ==
    [][ (/\ lastOp' = "detect_landmines"
         /\ detect_call'.file = "image"
         /\ detect_call'.path \notin DemoNamed) =>
            LET kept == SelectSeq(detect_call'.contours,
                            LAMBDA c : /\ 15 <= c.area /\ c.area <= 120
                                       /\ c.circularity >= 65)
                ret == detect_call'.ret
            IN  /\ Len(ret) = Len(kept)
                /\ \A i \in DOMAIN kept :
                    ret[i].confidence =
                        Min(9500, 70 * kept[i].circularity
                                  + (kept[i].area * 3000) \div 120) ]_vars

\* C18: after Apply Settings with the Confidence Threshold slider at T, no
\* detection returned by detect_landmines with confidence below T is
\* classified Landmine.
C18_ThresholdGatesLandmine ==
    [][ (lastOp' = "detect_landmines" /\ applied_settings'.applied) =>
            \A i \in DOMAIN detect_call'.ret :
                detect_call'.ret[i].confidence < applied_settings'.threshold =>
                    detect_call'.ret[i].classification # "Landmine" ]_vars

\* C19: once the user has clicked Clear All Detections and ticked the
\* confirmation, the session's detection list and processed-images map are
\* empty and the newest event is the System warning 'All detection data
\* cleared'.
C19_ClearAllDeletes ==
    lastOp = "I understand this will delete all detection data" =>
        /\ session_detections = <<>>
        /\ session_processed_images = <<>>
        /\ events # <<>>
        /\ Last(events).type = "System"
        /\ Last(events).message = "All detection data cleared"
        /\ Last(events).severity = "warning"

ControlSeverity ==
    [b \in {"Take Off", "Land", "Return Home", "Emergency Stop"} |->
        IF b = "Return Home" THEN "warning"
        ELSE IF b = "Emergency Stop" THEN "danger"
        ELSE "info"]

\* C21: in app.py a click of Take Off, Land, Return Home or Emergency Stop,
\* whatever the flight state, appends exactly one event to the session event
\* list, of type CONTROL and of severity info, info, warning, danger
\* respectively, and stores that event (same id, time, type, message and
\* severity) as the one new row of the events table; every step of the
\* session leaves the events it had at the front of the list, in order.
C21_ControlEventLogged ==
    [][dashboard = "app" =>
        /\ Len(events') >= Len(events)
        /\ SubSeq(events', 1, Len(events)) = events
        /\ lastOp' \in DOMAIN ControlSeverity =>
               /\ ExtendedBy(events, events', 1)
               /\ Last(events').type = "CONTROL"
               /\ Last(events').severity = ControlSeverity[lastOp']
               /\ ExtendedBy(db_events, db_events', 1)
               /\ \A k \in EventColumns :
                      SameEntry(Last(events'), Last(db_events'), k)]_vars

\* a take-off, a landmine found by a refresh, an emergency stop, and then
\* Return Home clicked on the ground: four events, each one stored
C21_Witness ==
    /\ dashboard = "app"
    /\ lastOp = "Return Home"
    /\ ~is_flying /\ ~session_is_flying
    /\ Len(events) = 4
    /\ events[1].message = "Drone took off" /\ events[1].severity = "info"
    /\ events[2].type = "DETECTION"
    /\ events[3].message = "EMERGENCY STOP triggered"
    /\ events[4].type = "CONTROL" /\ events[4].severity = "warning"
    /\ [i \in DOMAIN db_events |-> db_events[i].id]
           = [i \in DOMAIN events |-> events[i].id]

\* the hotspots of the c-th list that contain the position asked about and
\* whose draw was below their probability
DrawnBelow(c) ==
    {i \in DOMAIN HotspotLists[c] :
        /\ <<c, i>> \in DOMAIN hotspot_draws
        /\ hotspot_draws[<<c, i>>] < HotspotLists[c][i].probability}

\* C22: the hotspot lists are tried in the order landmine, debris, safe,
\* each hotspot against its own draw and its own probability: if the draw of
\* a landmine hotspot containing the position is below that hotspot's
\* probability the answer is 'Landmine', whatever the debris and safe
\* hotspots around the position drew; 'Metal Debris' from a debris hotspot
\* needs every containing landmine hotspot's draw to have failed, and
\* 'Safe Zone' from a safe hotspot every containing landmine and debris
\* hotspot's draw to have failed.
C22_LandmineFirst ==
    lastOp = "check" =>
        /\ DOMAIN hotspot_draws = Containing(query[1], query[2])
        /\ DrawnBelow(1) # {} => near[1] = "Landmine"
        /\ near[1] # "Landmine" => DrawnBelow(1) = {}
        /\ (DrawnBelow(1) = {} /\ DrawnBelow(2) # {}) => near[1] = "Metal Debris"
        /\ (DrawnBelow(1) = {} /\ DrawnBelow(2) = {} /\ DrawnBelow(3) # {})
               => near[1] = "Safe Zone"
        /\ (near[1] = "Safe Zone" /\ random_draw >= random_detection_chance)
               => (DrawnBelow(2) = {} /\ DrawnBelow(3) # {})

\* over the first landmine hotspot, inside three debris hotspots: the
\* landmine draw 0.65 is below 0.7 and every debris draw 0.35 is below its
\* hotspot's probability; the answer is the landmine
C22_Witness ==
    /\ lastOp = "check"
    /\ query = <<34052200, -118243700>>
    /\ hotspot_draws[<<1, 1>>] = 65
    /\ \A i \in 1..3 : <<2, i>> \in DOMAIN hotspot_draws /\ hotspot_draws[<<2, i>>] = 35
    /\ near = <<"Landmine", 70>>

====
